---- MODULE Spec2Model ----
(***************************************************************************)
(* Model of module_utils/oracle/oci_wait_utils.py: the waiter classes, the *)
(* waiter override registry, get_waiter and call_and_wait.                 *)
(*                                                                         *)
(* One execution of call_and_wait (or of a waiter built directly by a      *)
(* resource helper) is followed step by step.  The remote service, the     *)
(* resource helper's accessors and oci.wait_until are the environment:     *)
(* every fetch returns a nondeterministically chosen status or raises.     *)
(***************************************************************************)
EXTENDS Naturals, Sequences, FiniteSets, TLC

VARIABLES
    entry,                  \* "call_and_wait" | "direct" (a helper builds the audit waiter itself)
    waiter_type,            \* call_and_wait argument
    operation,              \* call_and_wait argument
    namespace,              \* resource_helper.namespace
    resource_type,          \* resource_helper.resource_type
    id_param_known,         \* get_module_resource_id_param(): "unasked", or whether it answered
    wait_for_states,        \* call_and_wait argument
    params,                 \* resource_helper.module.params
    params_at_start,        \* history: params when the execution started
    waiter_override_map,    \* _WAITER_OVERRIDE_MAP
    pc,                     \* position of the executing thread
    operation_response,     \* result of the initiating call
    waiter_override_class,  \* local of get_waiter
    waiter,                 \* class of the waiter instance
    id_orig,                \* local of CreateOperationLifecycleStateWaiter.get_initial_response
    wait_response,          \* the response oci.wait_until currently holds
    polls,                  \* time units slept (= re-fetches issued) by oci.wait_until
    result,                 \* value returned by wait()
    failure,                \* exception / fail_json that ended the execution
    get_resource_log,       \* history: the identifier parameter seen by each get_resource()
    get_work_request_log,   \* history: ids passed to client.get_work_request
    get_fn_log,             \* history: ids passed to resource_helper.get_get_fn()(...)
    work_request_resources, \* history: wait_response.data.resources as the create waiter read it
    call_trace,             \* history: the calls call_and_wait (or the helper) has made, in order
    concurrent_wait         \* a second wait on the same resource_helper: its position and locals

vars == <<entry, waiter_type, operation, namespace, resource_type, id_param_known,
          wait_for_states, params, params_at_start, waiter_override_map, pc,
          operation_response, waiter_override_class, waiter, id_orig, wait_response,
          polls, result, failure, get_resource_log, get_work_request_log, get_fn_log,
          work_request_resources, call_trace, concurrent_wait>>

helper_vars == <<entry, waiter_type, operation, namespace, resource_type,
                 wait_for_states, params_at_start,
                 concurrent_wait>>

log_vars == <<get_resource_log, get_work_request_log, get_fn_log,
              work_request_resources>>

(***************************************************************************)
(* Bounds                                                                  *)
(***************************************************************************)
MaxWaitTimeout == 1        \* largest wait_timeout a caller passes, in poll intervals
MaxResources == 2          \* longest resource list of a work request
MaxOverrides == 2          \* most entries of a registry the dispatcher is exercised with

(***************************************************************************)
(* Constants of the module and of oci_common_utils                         *)
(***************************************************************************)
LIFECYCLE_STATE_WAITER_KEY == "LIFECYCLE_STATE_WAITER"
WORK_REQUEST_WAITER_KEY == "WORK_REQUEST_WAITER"
NONE_WAITER_KEY == "NONE_WAITER_KEY"

CREATE_OPERATION_KEY == "CREATE"
UPDATE_OPERATION_KEY == "UPDATE"
DELETE_OPERATION_KEY == "DELETE"
ANY_OPERATION_KEY == "ANY"
MAX_WAIT_TIMEOUT_IN_SECONDS == MaxWaitTimeout + 1

\* Python's None for identifiers and class references.
None == "None"
Truthy(v) == v \notin {None, ""}

\* Strings whose characters matter (status names) are sequences of characters.
UpperChars == <<"A","B","C","D","E","F","G","H","I","J","K","L","M",
                "N","O","P","Q","R","S","T","U","V","W","X","Y","Z">>
LowerChars == <<"a","b","c","d","e","f","g","h","i","j","k","l","m",
                "n","o","p","q","r","s","t","u","v","w","x","y","z">>

\* The lower-case letter of each upper-case letter.
LowerCase ==
    [c \in {UpperChars[k] : k \in 1..Len(UpperChars)} |->
        LowerChars[CHOOSE k \in 1..Len(UpperChars) : UpperChars[k] = c]]

\* str.lower()
lower(s) ==
    [i \in 1..Len(s) |-> IF s[i] \in DOMAIN LowerCase THEN LowerCase[s[i]] ELSE s[i]]

\* A status that is None or "" (both falsy).
NoState == <<>>
ACTIVE == <<"A","C","T","I","V","E">>
Active == <<"A","c","t","i","v","e">>
Activ == <<"A","c","t","i","v">>
SUCCEEDED == <<"S","U","C","C","E","E","D","E","D">>
Succeeded == <<"S","u","c","c","e","e","d","e","d">>
FAILED == <<"F","A","I","L","E","D">>
CREATING == <<"C","R","E","A","T","I","N","G">>

(***************************************************************************)
(* Values the environment and the caller draw from                         *)
(***************************************************************************)
\* Statuses a fetch may report (lifecycle_state of a resource, status of a work request).
StatusValues == {NoState, Active, Activ, Succeeded}
\* wait_for_states lists a caller passes.
WaitForStatesChoices == {<<ACTIVE>>, <<FAILED, SUCCEEDED>>}
RetentionValues == {90, 365}
\* (namespace, resource_type) of the resource helpers.
ResourceHelpers == {<<"audit", "configuration">>, <<"core", "boot_volume">>}
WaiterTypes == {LIFECYCLE_STATE_WAITER_KEY, WORK_REQUEST_WAITER_KEY, NONE_WAITER_KEY, "UNKNOWN_WAITER"}
Operations == {CREATE_OPERATION_KEY, UPDATE_OPERATION_KEY, DELETE_OPERATION_KEY}
WaiterClasses == {"LifecycleStateWaiter", "CreateOperationLifecycleStateWaiter",
                  "WorkRequestWaiter", "CreateOperationWorkRequestWaiter",
                  "NoneWaiter", "AuditConfigurationLifecycleStateWaiter"}

\* The name get_module_resource_id_param() returns when it is implemented.
IdParam == "resource_id"

NoResponse == [kind |-> "none"]
NoResult == [kind |-> "none"]
EmptyDict == [k \in {} |-> None]
\* No second wait runs on the resource helper.
NoConcurrentWait == [pc |-> "idle", identifier |-> None, id_orig |-> None, get_resource_log |-> <<>>]

\* dict.get(key, default)
get(d, key, default) == IF key \in DOMAIN d THEN d[key] ELSE default
\* module.params.get("wait"): None, hence falsy, when the key is absent.
wait_param(d) == IF "wait" \in DOMAIN d THEN d["wait"] ELSE FALSE

\* module.params as the caller hands them over.
ParamsChoices ==
    { ((IdParam :> o) @@ ("retention_period_days" :> 90)) @@ w @@ t :
        o \in {None, "ocid1.orig"},
        w \in {EmptyDict} \cup {("wait" :> b) : b \in BOOLEAN},
        t \in {EmptyDict} \cup {("wait_timeout" :> n) : n \in 1..MaxWaitTimeout} }

\* Responses of the initiating call: payload and headers.
OperationResponses ==
    { [data |-> [id |-> i, lifecycle_state |-> CREATING, retention_period_days |-> d],
       headers |-> h] :
        i \in {None, "ocid1.x"}, d \in RetentionValues,
        h \in {EmptyDict, ("opc-work-request-id" :> "wr-1")} }

\* What a GET of the resource may answer; id is the identifier the request was made with.
\* The model of a resource type without lifecycle state has no such attribute.
ResourceResponses(id) ==
    { [kind |-> "resource",
       data |-> [id |-> id, lifecycle_state |-> s, retention_period_days |-> d]] :
        s \in StatusValues, d \in RetentionValues }
    \cup { [kind |-> "resource", data |-> [id |-> id, retention_period_days |-> d]] :
                d \in RetentionValues }

\* oci_common_utils.get_entity_type: the entity type work requests use for a resource type.
get_entity_type(rtype) ==
    CASE rtype = "boot_volume" -> "bootvolume"
      [] rtype = "configuration" -> "configuration"
      [] OTHER -> rtype

RECURSIVE SeqsUpTo(_, _)
SeqsUpTo(S, n) ==
    IF n = 0 THEN {<<>>}
    ELSE LET shorter == SeqsUpTo(S, n - 1)
         IN  shorter \cup {Append(q, x) : q \in shorter, x \in S}

\* Entries of the resource list of a work request that creates a resource of type
\* rtype: entries for that resource, for another entity, and without entity_type
\* attribute (None).
WorkRequestResourceEntries(rtype) ==
    { [entity_type |-> get_entity_type(rtype), identifier |-> i] :
        i \in {None, "id-123", "id-456"} }
    \cup { [entity_type |-> e, identifier |-> "id-789"] : e \in {None, "instance"} }

\* The resource lists a finished work request may carry.
WorkRequestResourceLists(rtype) == SeqsUpTo(WorkRequestResourceEntries(rtype), MaxResources)

\* What a GET of the work request may answer.  data.resources is drawn when the
\* create waiter reads it (work_request_resources): nothing reads it earlier.
WorkRequestResponses(id) ==
    { [kind |-> "work_request", data |-> [id |-> id, status |-> st]] :
        st \in StatusValues }

(***************************************************************************)
(* The override registry and the dispatcher                                *)
(***************************************************************************)
\* _WAITER_OVERRIDE_MAP as the module defines it.
WAITER_OVERRIDE_MAP ==
    (<<"audit", "configuration", UPDATE_OPERATION_KEY>> :> "NoneWaiter")

\* Mutant: the wildcard entry is consulted before the exact one.
get_waiter_override_any_first(ns, rtype, op) ==
    IF <<ns, rtype, ANY_OPERATION_KEY>> \in DOMAIN waiter_override_map
    THEN waiter_override_map[<<ns, rtype, ANY_OPERATION_KEY>>]
    ELSE IF <<ns, rtype, op>> \in DOMAIN waiter_override_map
         THEN waiter_override_map[<<ns, rtype, op>>]
         ELSE None

get_waiter_override(ns, rtype, op) ==
    IF <<ns, rtype, op>> \in DOMAIN waiter_override_map
    THEN waiter_override_map[<<ns, rtype, op>>]
    ELSE IF <<ns, rtype, ANY_OPERATION_KEY>> \in DOMAIN waiter_override_map
         THEN waiter_override_map[<<ns, rtype, ANY_OPERATION_KEY>>]
         ELSE None

\* Mutant: the override registry is not consulted.
get_waiter_ignoring_override(wtype, op, ns, rtype) ==
    IF wtype = LIFECYCLE_STATE_WAITER_KEY
    THEN IF op = CREATE_OPERATION_KEY
         THEN "CreateOperationLifecycleStateWaiter"
         ELSE "LifecycleStateWaiter"
    ELSE IF wtype = WORK_REQUEST_WAITER_KEY
         THEN IF op = CREATE_OPERATION_KEY
              THEN "CreateOperationWorkRequestWaiter"
              ELSE "WorkRequestWaiter"
    ELSE "NoneWaiter"

\* Mutant: the work-request kind never selects the create variant.
get_waiter_plain_work_request(wtype, op, ns, rtype) ==
    LET override == get_waiter_override(ns, rtype, op)
    IN  IF override # None THEN override
        ELSE IF wtype = LIFECYCLE_STATE_WAITER_KEY
             THEN IF op = CREATE_OPERATION_KEY
                  THEN "CreateOperationLifecycleStateWaiter"
                  ELSE "LifecycleStateWaiter"
        ELSE IF wtype = WORK_REQUEST_WAITER_KEY
             THEN "WorkRequestWaiter"
        ELSE "NoneWaiter"

get_waiter(wtype, op, ns, rtype) ==
    LET override == get_waiter_override(ns, rtype, op)
    IN  IF override # None THEN override
        ELSE IF wtype = LIFECYCLE_STATE_WAITER_KEY
             THEN IF op = CREATE_OPERATION_KEY
                  THEN "CreateOperationLifecycleStateWaiter"
                  ELSE "LifecycleStateWaiter"
        ELSE IF wtype = WORK_REQUEST_WAITER_KEY
             THEN IF op = CREATE_OPERATION_KEY
                  THEN "CreateOperationWorkRequestWaiter"
                  ELSE "WorkRequestWaiter"
        ELSE "NoneWaiter"

\* Registry contents get_waiter_override is exercised with: up to MaxOverrides
\* entries keyed on the helpers' resources and an operation or ANY_OPERATION_KEY.
RegistryKeys ==
    { <<h[1], h[2], op>> : h \in ResourceHelpers, op \in Operations \cup {ANY_OPERATION_KEY} }
Registries ==
    UNION { [D -> {"NoneWaiter", "LifecycleStateWaiter"}] :
                D \in {K \in SUBSET RegistryKeys : Cardinality(K) <= MaxOverrides} }

(***************************************************************************)
(* Initial states: the arguments of one execution                          *)
(***************************************************************************)
InitExecution ==
    /\ pc = "call"
    /\ operation_response = NoResponse
    /\ waiter_override_class = None
    /\ waiter = None
    /\ id_orig = None
    /\ wait_response = NoResponse
    /\ polls = 0
    /\ result = NoResult
    /\ failure = None
    /\ get_resource_log = <<>>
    /\ get_work_request_log = <<>>
    /\ get_fn_log = <<>>
    /\ work_request_resources = [read |-> FALSE, list |-> <<>>]
    /\ id_param_known = "unasked"
    /\ call_trace = <<>>
    /\ concurrent_wait = NoConcurrentWait

InitArguments ==
    /\ \/ /\ entry = "call_and_wait"
          /\ waiter_type \in WaiterTypes
          /\ operation \in Operations
          /\ \E h \in ResourceHelpers : namespace = h[1] /\ resource_type = h[2]
       \/ /\ entry = "direct"
          /\ waiter_type = LIFECYCLE_STATE_WAITER_KEY
          /\ operation = UPDATE_OPERATION_KEY
          /\ namespace = "audit"
          /\ resource_type = "configuration"
    /\ wait_for_states \in WaitForStatesChoices
    /\ params \in ParamsChoices
    /\ params_at_start = params

Init ==
    /\ waiter_override_map = WAITER_OVERRIDE_MAP
    /\ InitArguments
    /\ InitExecution

(***************************************************************************)
(* call_and_wait                                                           *)
(***************************************************************************)
\* The execution ends with an exception (or fail_json) that nothing in this module catches.
Raise(exc) ==
    /\ pc' = "raised"
    /\ failure' = exc

\* oci_common_utils.call_with_backoff(call_fn, ...) returns the operation response.
CallWithBackoff ==
    /\ pc = "call"
    /\ call_trace' = Append(call_trace, "call_with_backoff")
    /\ \E r \in OperationResponses : operation_response' = r
    /\ pc' = IF entry = "call_and_wait" THEN "get_waiter" ELSE "construct"
    /\ UNCHANGED <<helper_vars, id_param_known, params, waiter_override_map, waiter_override_class,
                   waiter, id_orig, wait_response, polls, result, failure, log_vars>>

\* Mutant: the failure of the initiating call is noted and the waiter is built all the same.
CallWithBackoffRaisesSwallowed ==
    /\ pc = "call"
    /\ call_trace' = Append(call_trace, "call_with_backoff")
    /\ failure' = "CallError"
    /\ pc' = IF entry = "call_and_wait" THEN "get_waiter" ELSE "construct"
    /\ \E r \in OperationResponses : operation_response' = r
    /\ UNCHANGED <<helper_vars, id_param_known, params, waiter_override_map,
                   waiter_override_class, waiter, id_orig, wait_response, polls,
                   result, log_vars>>

\* ... or raises.
CallWithBackoffRaises ==
    /\ pc = "call"
    /\ call_trace' = Append(call_trace, "call_with_backoff")
    /\ Raise("CallError")
    /\ UNCHANGED <<helper_vars, id_param_known, params, waiter_override_map, operation_response,
                   waiter_override_class, waiter, id_orig, wait_response, polls,
                   result, log_vars>>

\* Mutant: the dispatcher records the class it selected in the registry.
GetWaiterCaching ==
    /\ pc = "get_waiter"
    /\ call_trace' = Append(call_trace, "get_waiter")
    /\ waiter_override_class' = get_waiter_override(namespace, resource_type, operation)
    /\ waiter' = get_waiter(waiter_type, operation, namespace, resource_type)
    /\ waiter_override_map' =
            (<<namespace, resource_type, operation>> :>
                get_waiter(waiter_type, operation, namespace, resource_type))
            @@ waiter_override_map
    /\ pc' = "wait"
    /\ UNCHANGED <<helper_vars, id_param_known, params, operation_response,
                   id_orig, wait_response, polls, result, failure, log_vars>>

GetWaiter ==
    /\ pc = "get_waiter"
    /\ call_trace' = Append(call_trace, "get_waiter")
    /\ waiter_override_class' = get_waiter_override(namespace, resource_type, operation)
    /\ waiter' = get_waiter(waiter_type, operation, namespace, resource_type)
    /\ pc' = "wait"
    /\ UNCHANGED <<helper_vars, id_param_known, params, waiter_override_map, operation_response,
                   id_orig, wait_response, polls, result, failure, log_vars>>

\* A resource helper builds the audit configuration waiter itself.
ConstructAuditConfigurationLifecycleStateWaiter ==
    /\ pc = "construct"
    /\ call_trace' = Append(call_trace, "construct")
    /\ waiter' = "AuditConfigurationLifecycleStateWaiter"
    /\ pc' = "wait"
    /\ UNCHANGED <<helper_vars, id_param_known, params, waiter_override_map, operation_response,
                   waiter_override_class, id_orig, wait_response, polls, result,
                   failure, log_vars>>

(***************************************************************************)
(* Waiter.wait                                                             *)
(***************************************************************************)
PollingWaiters == WaiterClasses \ {"NoneWaiter"}
LifecycleWaiters == {"LifecycleStateWaiter", "CreateOperationLifecycleStateWaiter",
                     "AuditConfigurationLifecycleStateWaiter"}
WorkRequestWaiters == {"WorkRequestWaiter", "CreateOperationWorkRequestWaiter"}

\* NoneWaiter.wait
NoneWaiterWait ==
    /\ pc = "wait"
    /\ call_trace' = Append(call_trace, "wait")
    /\ waiter = "NoneWaiter"
    /\ result' = operation_response.data
    /\ pc' = "returned"
    /\ UNCHANGED <<helper_vars, id_param_known, params, waiter_override_map, operation_response,
                   waiter_override_class, waiter, id_orig, wait_response, polls,
                   failure, log_vars>>

\* BaseWaiter.wait, "wait" not set: return self.operation_response
BaseWaiterWaitDisabled ==
    /\ pc = "wait"
    /\ call_trace' = Append(call_trace, "wait")
    /\ waiter \in PollingWaiters
    /\ ~wait_param(params)
    /\ result' = operation_response
    /\ pc' = "returned"
    /\ UNCHANGED <<helper_vars, id_param_known, params, waiter_override_map, operation_response,
                   waiter_override_class, waiter, id_orig, wait_response, polls,
                   failure, log_vars>>

\* BaseWaiter.wait goes on to self.get_initial_response()
WaitEnabled ==
    /\ pc = "wait"
    /\ waiter \in PollingWaiters
    /\ wait_param(params)

\* LifecycleStateWaiterBase.get_initial_response: resource_helper.get_resource()
LifecycleStateWaiterBaseGetInitialResponse ==
    /\ WaitEnabled
    /\ call_trace' = Append(call_trace, "wait")
    /\ waiter \in {"LifecycleStateWaiter", "AuditConfigurationLifecycleStateWaiter"}
    /\ get_resource_log' = Append(get_resource_log, params[IdParam])
    /\ \/ /\ \E r \in ResourceResponses(params[IdParam]) : wait_response' = r
          /\ pc' = "wait_until"
          /\ UNCHANGED failure
       \/ /\ Raise("ServiceError")
          /\ UNCHANGED wait_response
    /\ UNCHANGED <<helper_vars, id_param_known, params, waiter_override_map, operation_response,
                   waiter_override_class, waiter, id_orig, polls, result,
                   get_work_request_log, get_fn_log, work_request_resources>>

\* Mutant: the identifier of the operation response is not checked.
CreateOperationLifecycleStateWaiterGetIdentifierUnchecked ==
    /\ WaitEnabled
    /\ call_trace' = Append(call_trace, "wait")
    /\ waiter = "CreateOperationLifecycleStateWaiter"
    /\ \/ /\ id_param_known' = "NotImplementedError"
          /\ pc' = "fetch_as_is"
          /\ UNCHANGED <<id_orig, failure>>
       \/ /\ id_param_known' = IdParam
          /\ id_orig' = params[IdParam]
          /\ pc' = "swap"
          /\ UNCHANGED failure
    /\ UNCHANGED <<helper_vars, params, waiter_override_map, operation_response,
                   waiter_override_class, waiter, wait_response, polls, result,
                   log_vars>>

\* CreateOperationLifecycleStateWaiter.get_initial_response up to the swap:
\* the identifier check and the read of id_orig.
CreateOperationLifecycleStateWaiterGetIdentifier ==
    /\ WaitEnabled
    /\ call_trace' = Append(call_trace, "wait")
    /\ waiter = "CreateOperationLifecycleStateWaiter"
    /\ \/ /\ ~Truthy(operation_response.data.id)
          /\ Raise("IdentifierMissing")
          /\ UNCHANGED <<id_orig, id_param_known>>
       \/ /\ Truthy(operation_response.data.id)
          /\ id_param_known \in {"unasked", "NotImplementedError"}
          /\ id_param_known' = "NotImplementedError"
          /\ pc' = "fetch_as_is"
          /\ UNCHANGED <<id_orig, failure>>
       \/ /\ Truthy(operation_response.data.id)
          /\ id_param_known \in {"unasked", IdParam}
          /\ id_param_known' = IdParam
          /\ id_orig' = params[IdParam]
          /\ pc' = "swap"
          /\ UNCHANGED failure
    /\ UNCHANGED <<helper_vars, params, waiter_override_map, operation_response,
                   waiter_override_class, waiter, wait_response, polls, result,
                   log_vars>>

\* Mutant: the fallback writes the new identifier into the parameters before it fetches.
CreateOperationLifecycleStateWaiterFetchAsIsWrites ==
    /\ pc = "fetch_as_is"
    /\ params' = [params EXCEPT ![IdParam] = operation_response.data.id]
    /\ get_resource_log' = Append(get_resource_log, operation_response.data.id)
    /\ \/ /\ \E r \in ResourceResponses(operation_response.data.id) : wait_response' = r
          /\ pc' = "wait_until"
          /\ UNCHANGED failure
       \/ /\ Raise("ServiceError")
          /\ UNCHANGED wait_response
    /\ UNCHANGED <<helper_vars, call_trace, id_param_known, waiter_override_map,
                   operation_response, waiter_override_class, waiter, id_orig, polls,
                   result, get_work_request_log, get_fn_log, work_request_resources>>

\* except NotImplementedError: return self.resource_helper.get_resource()
CreateOperationLifecycleStateWaiterFetchAsIs ==
    /\ pc = "fetch_as_is"
    /\ get_resource_log' = Append(get_resource_log, params[IdParam])
    /\ \/ /\ \E r \in ResourceResponses(params[IdParam]) : wait_response' = r
          /\ pc' = "wait_until"
          /\ UNCHANGED failure
       \/ /\ Raise("ServiceError")
          /\ UNCHANGED wait_response
    /\ UNCHANGED <<helper_vars, call_trace, id_param_known, params, waiter_override_map, operation_response,
                   waiter_override_class, waiter, id_orig, polls, result,
                   get_work_request_log, get_fn_log, work_request_resources>>

\* module.params[id param] = identifier
CreateOperationLifecycleStateWaiterSwap ==
    /\ pc = "swap"
    /\ params' = [params EXCEPT ![IdParam] = operation_response.data.id]
    /\ pc' = "fetch_swapped"
    /\ UNCHANGED <<helper_vars, call_trace, id_param_known, waiter_override_map, operation_response,
                   waiter_override_class, waiter, id_orig, wait_response, polls,
                   result, failure, log_vars>>

\* get_response = self.resource_helper.get_resource()
CreateOperationLifecycleStateWaiterFetch ==
    /\ pc = "fetch_swapped"
    /\ get_resource_log' = Append(get_resource_log, params[IdParam])
    /\ \/ /\ \E r \in ResourceResponses(params[IdParam]) : wait_response' = r
          /\ pc' = "restore"
          /\ UNCHANGED failure
       \/ /\ Raise("ServiceError")
          /\ UNCHANGED wait_response
    /\ UNCHANGED <<helper_vars, call_trace, id_param_known, params, waiter_override_map, operation_response,
                   waiter_override_class, waiter, id_orig, polls, result,
                   get_work_request_log, get_fn_log, work_request_resources>>

\* Mutant: the parameter is cleared instead of being given its original value.
CreateOperationLifecycleStateWaiterRestoreClears ==
    /\ pc = "restore"
    /\ params' = [params EXCEPT ![IdParam] = None]
    /\ pc' = "wait_until"
    /\ UNCHANGED <<helper_vars, call_trace, id_param_known, waiter_override_map, operation_response,
                   waiter_override_class, waiter, id_orig, wait_response, polls,
                   result, failure, log_vars>>

\* module.params[id param] = id_orig; return get_response
CreateOperationLifecycleStateWaiterRestore ==
    /\ pc = "restore"
    /\ params' = [params EXCEPT ![IdParam] = id_orig]
    /\ pc' = "wait_until"
    /\ UNCHANGED <<helper_vars, call_trace, id_param_known, waiter_override_map, operation_response,
                   waiter_override_class, waiter, id_orig, wait_response, polls,
                   result, failure, log_vars>>

\* WorkRequestWaiter.get_initial_response
WorkRequestWaiterGetInitialResponse ==
    /\ WaitEnabled
    /\ call_trace' = Append(call_trace, "wait")
    /\ waiter \in WorkRequestWaiters
    /\ \/ /\ "opc-work-request-id" \notin DOMAIN operation_response.headers
          /\ Raise("KeyError")
          /\ UNCHANGED <<wait_response, get_work_request_log>>
       \/ /\ "opc-work-request-id" \in DOMAIN operation_response.headers
          /\ get_work_request_log' =
                Append(get_work_request_log, operation_response.headers["opc-work-request-id"])
          /\ \/ /\ \E r \in WorkRequestResponses(
                                operation_response.headers["opc-work-request-id"]) :
                        wait_response' = r
                /\ pc' = "wait_until"
                /\ UNCHANGED failure
             \/ /\ Raise("ServiceError")
                /\ UNCHANGED wait_response
    /\ UNCHANGED <<helper_vars, id_param_known, params, waiter_override_map, operation_response,
                   waiter_override_class, waiter, id_orig, polls, result,
                   get_resource_log, get_fn_log, work_request_resources>>

(***************************************************************************)
(* oci.wait_until with the waiter's evaluate_response                      *)
(***************************************************************************)
lowered_wait_for_states == {lower(wait_for_states[i]) : i \in DOMAIN wait_for_states}

\* Mutant: "or" where the lambda has "and".
LifecycleStateWaiterBaseEvaluateOr(r) ==
    \/ r.data.lifecycle_state # NoState
    \/ lower(r.data.lifecycle_state) \in lowered_wait_for_states

\* Mutant: a state that begins a waited-for state counts as that state.
LifecycleStateWaiterBaseEvaluatePrefix(r) ==
    /\ r.data.lifecycle_state # NoState
    /\ \E w \in lowered_wait_for_states :
            /\ Len(r.data.lifecycle_state) <= Len(w)
            /\ SubSeq(w, 1, Len(r.data.lifecycle_state)) = lower(r.data.lifecycle_state)

\* LifecycleStateWaiterBase.get_evaluate_response_lambda
LifecycleStateWaiterBaseEvaluate(r) ==
    /\ r.data.lifecycle_state # NoState
    /\ lower(r.data.lifecycle_state) \in lowered_wait_for_states

\* WorkRequestWaiter.get_evaluate_response_lambda
WorkRequestWaiterEvaluate(r) ==
    /\ r.data.status # NoState
    /\ lower(r.data.status) \in lowered_wait_for_states

\* AuditConfigurationLifecycleStateWaiter.get_evaluate_response_lambda
AuditConfigurationLifecycleStateWaiterEvaluate(r) ==
    /\ "retention_period_days" \in DOMAIN params
    /\ r.data.retention_period_days = params["retention_period_days"]

\* The evaluate_response the waiter hands to oci.wait_until.
evaluate_response(r) ==
    CASE waiter = "AuditConfigurationLifecycleStateWaiter" ->
            AuditConfigurationLifecycleStateWaiterEvaluate(r)
      [] waiter \in {"LifecycleStateWaiter", "CreateOperationLifecycleStateWaiter"} ->
            LifecycleStateWaiterBaseEvaluate(r)
      [] waiter \in WorkRequestWaiters ->
            WorkRequestWaiterEvaluate(r)

\* max_wait_seconds=module.params.get("wait_timeout", MAX_WAIT_TIMEOUT_IN_SECONDS)
max_wait_seconds == get(params, "wait_timeout", MAX_WAIT_TIMEOUT_IN_SECONDS)

\* What re-issuing the request of the response at hand may answer.
PollResponses ==
    IF wait_response.kind = "resource"
    THEN ResourceResponses(wait_response.data.id)
    ELSE WorkRequestResponses(wait_response.data.id)

\* getattr(r.data, name) without a default raises AttributeError when r.data
\* has no attribute of that name; nothing in the lambdas or in wait() catches it.
evaluate_response_raises(r) ==
    CASE waiter = "AuditConfigurationLifecycleStateWaiter" -> FALSE
      [] waiter \in {"LifecycleStateWaiter", "CreateOperationLifecycleStateWaiter"} ->
            "lifecycle_state" \notin DOMAIN r.data
      [] waiter \in WorkRequestWaiters ->
            "status" \notin DOMAIN r.data

\* oci.wait_until first evaluates the initial response.
WaitUntilStart ==
    /\ pc = "wait_until"
    /\ IF evaluate_response_raises(wait_response)
       THEN Raise("AttributeError")
       ELSE /\ pc' = IF evaluate_response(wait_response) THEN "extract" ELSE "sleep"
            /\ UNCHANGED failure
    /\ UNCHANGED <<helper_vars, call_trace, id_param_known, params, waiter_override_map,
                   operation_response, waiter_override_class, waiter, id_orig,
                   wait_response, polls, result, log_vars>>

\* One iteration: sleep, fetch again, evaluate.
WaitUntilPoll ==
    /\ pc = "sleep"
    /\ polls < max_wait_seconds
    /\ polls' = polls + 1
    /\ \/ \E r \in PollResponses :
                /\ wait_response' = r
                /\ IF evaluate_response_raises(r)
                   THEN Raise("AttributeError")
                   ELSE /\ pc' = IF evaluate_response(r) THEN "extract" ELSE "sleep"
                        /\ UNCHANGED failure
       \/ /\ Raise("ServiceError")
          /\ UNCHANGED wait_response
    /\ UNCHANGED <<helper_vars, call_trace, id_param_known, params, waiter_override_map, operation_response,
                   waiter_override_class, waiter, id_orig, result, log_vars>>

\* Mutant: the timeout is swallowed and the last polled response is used.
WaitUntilTimeoutSwallowed ==
    /\ pc = "sleep"
    /\ polls >= max_wait_seconds
    /\ pc' = "extract"
    /\ UNCHANGED <<helper_vars, call_trace, id_param_known, params, waiter_override_map,
                   operation_response, waiter_override_class, waiter, id_orig,
                   wait_response, polls, result, failure, log_vars>>

\* max_wait_seconds elapsed: oci.wait_until raises MaximumWaitTimeExceeded.
WaitUntilTimeout ==
    /\ pc = "sleep"
    /\ polls >= max_wait_seconds
    /\ Raise("MaximumWaitTimeExceeded")
    /\ UNCHANGED <<helper_vars, call_trace, id_param_known, params, waiter_override_map, operation_response,
                   waiter_override_class, waiter, id_orig, wait_response, polls,
                   result, log_vars>>

(***************************************************************************)
(* get_resource_from_wait_response                                         *)
(***************************************************************************)
\* LifecycleStateWaiterBase.get_resource_from_wait_response
LifecycleStateWaiterBaseGetResource ==
    /\ pc = "extract"
    /\ waiter \in LifecycleWaiters
    /\ result' = wait_response.data
    /\ pc' = "returned"
    /\ UNCHANGED <<helper_vars, call_trace, id_param_known, params, waiter_override_map, operation_response,
                   waiter_override_class, waiter, id_orig, wait_response, polls,
                   failure, log_vars>>

\* Mutant: the payload of the work request is returned, the resource is not fetched.
WorkRequestWaiterGetResourceFromWorkRequest ==
    /\ pc = "extract"
    /\ waiter = "WorkRequestWaiter"
    /\ result' = wait_response.data
    /\ pc' = "returned"
    /\ UNCHANGED <<helper_vars, call_trace, id_param_known, params, waiter_override_map,
                   operation_response, waiter_override_class, waiter, id_orig,
                   wait_response, polls, failure, log_vars>>

\* WorkRequestWaiter.get_resource_from_wait_response
WorkRequestWaiterGetResource ==
    /\ pc = "extract"
    /\ waiter = "WorkRequestWaiter"
    /\ get_resource_log' = Append(get_resource_log, params[IdParam])
    /\ \/ /\ \E r \in ResourceResponses(params[IdParam]) : result' = r.data
          /\ pc' = "returned"
          /\ UNCHANGED failure
       \/ /\ Raise("ServiceError")
          /\ UNCHANGED result
    /\ UNCHANGED <<helper_vars, call_trace, id_param_known, params, waiter_override_map, operation_response,
                   waiter_override_class, waiter, id_orig, wait_response, polls,
                   get_work_request_log, get_fn_log, work_request_resources>>

\* Mutant: the loop stops at the first matching entry.
RECURSIVE scan_resources_first_match(_, _, _, _)
scan_resources_first_match(resources, i, entity_type, identifier) ==
    IF i > Len(resources) THEN identifier
    ELSE IF resources[i].entity_type # None /\ resources[i].entity_type = entity_type
         THEN resources[i].identifier
         ELSE scan_resources_first_match(resources, i + 1, entity_type, identifier)

\* Mutant: the loop takes the identifier of every entry, whatever its entity type.
RECURSIVE scan_resources_any_entity(_, _, _, _)
scan_resources_any_entity(resources, i, entity_type, identifier) ==
    IF i > Len(resources) THEN identifier
    ELSE scan_resources_any_entity(resources, i + 1, entity_type, resources[i].identifier)

\* The loop of CreateOperationWorkRequestWaiter.get_resource_from_wait_response:
\* the identifier after the entries from index i on have been visited.
RECURSIVE scan_resources(_, _, _, _)
scan_resources(resources, i, entity_type, identifier) ==
    IF i > Len(resources) THEN identifier
    ELSE scan_resources(resources, i + 1, entity_type,
            IF resources[i].entity_type # None /\ resources[i].entity_type = entity_type
            THEN resources[i].identifier
            ELSE identifier)

\* CreateOperationWorkRequestWaiter.get_resource_from_wait_response
CreateOperationWorkRequestWaiterGetResource ==
    /\ pc = "extract"
    /\ waiter = "CreateOperationWorkRequestWaiter"
    /\ \E resources \in WorkRequestResourceLists(resource_type) :
        LET identifier == scan_resources(resources, 1,
                                         get_entity_type(resource_type), None)
        IN  /\ work_request_resources' = [read |-> TRUE, list |-> resources]
            /\ \/ /\ ~Truthy(identifier)
                  /\ Raise("ResourceIdentifierMissing")
                  /\ UNCHANGED <<result, get_fn_log>>
               \/ /\ Truthy(identifier)
                  /\ get_fn_log' = Append(get_fn_log, identifier)
                  /\ \/ /\ \E r \in ResourceResponses(identifier) : result' = r.data
                        /\ pc' = "returned"
                        /\ UNCHANGED failure
                     \/ /\ Raise("ServiceError")
                        /\ UNCHANGED result
    /\ UNCHANGED <<helper_vars, call_trace, id_param_known, params, waiter_override_map,
                   operation_response, waiter_override_class, waiter, id_orig,
                   wait_response, polls, get_resource_log, get_work_request_log>>

(***************************************************************************)
(* Specifications                                                          *)
(***************************************************************************)
Next ==
    \/ CallWithBackoff
    \/ CallWithBackoffRaises
    \/ GetWaiter
    \/ ConstructAuditConfigurationLifecycleStateWaiter
    \/ NoneWaiterWait
    \/ BaseWaiterWaitDisabled
    \/ LifecycleStateWaiterBaseGetInitialResponse
    \/ CreateOperationLifecycleStateWaiterGetIdentifier
    \/ CreateOperationLifecycleStateWaiterFetchAsIs
    \/ CreateOperationLifecycleStateWaiterSwap
    \/ CreateOperationLifecycleStateWaiterFetch
    \/ CreateOperationLifecycleStateWaiterRestore
    \/ WorkRequestWaiterGetInitialResponse
    \/ WaitUntilStart
    \/ WaitUntilPoll
    \/ WaitUntilTimeout
    \/ LifecycleStateWaiterBaseGetResource
    \/ WorkRequestWaiterGetResource
    \/ CreateOperationWorkRequestWaiterGetResource

Spec == Init /\ [][Next]_vars

\* The dispatcher alone, over every registry content: get_waiter is applied to
\* the arguments of a call whose initiating call has returned.
InitDispatch ==
    /\ waiter_override_map \in Registries
    /\ entry = "call_and_wait"
    /\ waiter_type \in WaiterTypes
    /\ operation \in Operations
    /\ \E h \in ResourceHelpers : namespace = h[1] /\ resource_type = h[2]
    /\ wait_for_states = <<ACTIVE>>
    /\ params = (IdParam :> None) @@ ("retention_period_days" :> 90) @@ ("wait" :> TRUE)
    /\ params_at_start = params
    /\ pc = "get_waiter"
    /\ operation_response =
            [data |-> [id |-> "ocid1.x", lifecycle_state |-> CREATING,
                       retention_period_days |-> 90],
             headers |-> ("opc-work-request-id" :> "wr-1")]
    /\ waiter_override_class = None
    /\ waiter = None
    /\ id_orig = None
    /\ id_param_known = "unasked"
    /\ wait_response = NoResponse
    /\ polls = 0
    /\ result = NoResult
    /\ failure = None
    /\ get_resource_log = <<>>
    /\ get_work_request_log = <<>>
    /\ get_fn_log = <<>>
    /\ work_request_resources = [read |-> FALSE, list |-> <<>>]
    /\ call_trace = <<"call_with_backoff">>
    /\ concurrent_wait = NoConcurrentWait

NextDispatch == GetWaiter

SpecDispatch == InitDispatch /\ [][NextDispatch]_vars

(***************************************************************************)
(* Two waits on one resource helper                                        *)
(***************************************************************************)
\* The steps of CreateOperationLifecycleStateWaiter.get_initial_response taken by
\* a second wait (another thread) that shares resource_helper.module.params with
\* the first; its operation response carries concurrent_wait.identifier.
\* id_orig = self.resource_helper.module.params[get_module_resource_id_param()]
ConcurrentWaitGetIdentifier ==
    /\ concurrent_wait.pc = "wait"
    /\ concurrent_wait' = [concurrent_wait EXCEPT !.pc = "swap", !.id_orig = params[IdParam]]
    /\ UNCHANGED <<entry, waiter_type, operation, namespace, resource_type, wait_for_states,
                   params_at_start, call_trace, id_param_known, params, waiter_override_map,
                   pc, operation_response, waiter_override_class, waiter, id_orig,
                   wait_response, polls, result, failure, log_vars>>

\* module.params[id param] = identifier
ConcurrentWaitSwap ==
    /\ concurrent_wait.pc = "swap"
    /\ params' = [params EXCEPT ![IdParam] = concurrent_wait.identifier]
    /\ concurrent_wait' = [concurrent_wait EXCEPT !.pc = "fetch_swapped"]
    /\ UNCHANGED <<entry, waiter_type, operation, namespace, resource_type, wait_for_states,
                   params_at_start, call_trace, id_param_known, waiter_override_map,
                   pc, operation_response, waiter_override_class, waiter, id_orig,
                   wait_response, polls, result, failure, log_vars>>

\* get_response = self.resource_helper.get_resource(): reads the parameter as it is now.
ConcurrentWaitFetch ==
    /\ concurrent_wait.pc = "fetch_swapped"
    /\ \E next_pc \in {"restore", "raised"} :
        concurrent_wait' =
            [concurrent_wait EXCEPT !.pc = next_pc,
                                    !.get_resource_log = Append(@, params[IdParam])]
    /\ UNCHANGED <<entry, waiter_type, operation, namespace, resource_type, wait_for_states,
                   params_at_start, call_trace, id_param_known, params, waiter_override_map,
                   pc, operation_response, waiter_override_class, waiter, id_orig,
                   wait_response, polls, result, failure, log_vars>>

\* module.params[id param] = id_orig; the second wait then polls without
\* reading the parameters again.
ConcurrentWaitRestore ==
    /\ concurrent_wait.pc = "restore"
    /\ params' = [params EXCEPT ![IdParam] = concurrent_wait.id_orig]
    /\ concurrent_wait' = [concurrent_wait EXCEPT !.pc = "done"]
    /\ UNCHANGED <<entry, waiter_type, operation, namespace, resource_type, wait_for_states,
                   params_at_start, call_trace, id_param_known, waiter_override_map,
                   pc, operation_response, waiter_override_class, waiter, id_orig,
                   wait_response, polls, result, failure, log_vars>>

\* call_and_wait creating a resource, lifecycle-state waiter, waiting enabled,
\* while a second such wait is about to enter get_initial_response.
InitConcurrent ==
    /\ waiter_override_map = WAITER_OVERRIDE_MAP
    /\ entry = "call_and_wait"
    /\ waiter_type = LIFECYCLE_STATE_WAITER_KEY
    /\ operation = CREATE_OPERATION_KEY
    /\ namespace = "core"
    /\ resource_type = "boot_volume"
    /\ wait_for_states \in WaitForStatesChoices
    /\ params \in {p \in ParamsChoices : wait_param(p)}
    /\ params_at_start = params
    /\ pc = "call"
    /\ operation_response = NoResponse
    /\ waiter_override_class = None
    /\ waiter = None
    /\ id_orig = None
    /\ wait_response = NoResponse
    /\ polls = 0
    /\ result = NoResult
    /\ failure = None
    /\ get_resource_log = <<>>
    /\ get_work_request_log = <<>>
    /\ get_fn_log = <<>>
    /\ work_request_resources = [read |-> FALSE, list |-> <<>>]
    /\ id_param_known = IdParam
    /\ call_trace = <<>>
    /\ concurrent_wait = [NoConcurrentWait EXCEPT !.pc = "wait", !.identifier = "ocid1.y"]

NextConcurrent ==
    \/ CallWithBackoff
    \/ CallWithBackoffRaises
    \/ GetWaiter
    \/ CreateOperationLifecycleStateWaiterGetIdentifier
    \/ CreateOperationLifecycleStateWaiterSwap
    \/ CreateOperationLifecycleStateWaiterFetch
    \/ CreateOperationLifecycleStateWaiterRestore
    \/ WaitUntilStart
    \/ WaitUntilPoll
    \/ WaitUntilTimeout
    \/ LifecycleStateWaiterBaseGetResource
    \/ ConcurrentWaitGetIdentifier
    \/ ConcurrentWaitSwap
    \/ ConcurrentWaitFetch
    \/ ConcurrentWaitRestore

SpecConcurrent == InitConcurrent /\ [][NextConcurrent]_vars

(***************************************************************************)
(* Properties                                                              *)
(***************************************************************************)
Ended == pc \in {"returned", "raised"}
NoFetchMade ==
    /\ get_resource_log = <<>>
    /\ get_work_request_log = <<>>
    /\ get_fn_log = <<>>
    /\ polls = 0
    /\ wait_response = NoResponse
\* s is, compared case-insensitively, one of wait_for_states.
IsWaitForState(s) ==
    /\ s # NoState
    /\ \E i \in DOMAIN wait_for_states : lower(s) = lower(wait_for_states[i])
ThroughCallAndWait(ns, rtype, op) ==
    /\ entry = "call_and_wait"
    /\ namespace = ns
    /\ resource_type = rtype
    /\ operation = op

\* C1: when the 'wait' option is false, wait() of every polling waiter returns
\* the payload of the initiating operation (operation_response.data) and no
\* status fetch of any kind has been made.
C1_WaitDisabledReturnsPayload ==
    (/\ pc = "returned"
     /\ waiter \in PollingWaiters
     /\ "wait" \in DOMAIN params
     /\ params["wait"] = FALSE)
    => (result = operation_response.data /\ NoFetchMade)

\* C2: in the create-operation lifecycle-state waiter, with identifier I in the
\* operation response and the identifier parameter resolved, one get_resource()
\* is made for the initial status, it sees the parameter equal to I, and once it
\* has returned and the waiter moved on the parameter has its original value.
C2_SwapFetchRestore ==
    (waiter = "CreateOperationLifecycleStateWaiter" /\ id_param_known = IdParam)
    => LET I == operation_response.data.id
       IN  /\ Truthy(I)
           /\ pc = "swap" => get_resource_log = <<>>
           /\ pc = "fetch_swapped" => (params[IdParam] = I /\ get_resource_log = <<>>)
           /\ get_resource_log \in {<<>>, <<I>>}
           /\ pc \in {"restore", "wait_until", "sleep", "extract", "returned"}
                => get_resource_log = <<I>>
           /\ pc \in {"wait_until", "sleep", "extract", "returned"}
                => params = params_at_start
           /\ failure = "MaximumWaitTimeExceeded" => params = params_at_start

C2_Witness ==
    /\ waiter = "CreateOperationLifecycleStateWaiter"
    /\ id_param_known = IdParam
    /\ pc = "returned"
    /\ get_resource_log = <<"ocid1.x">>
    /\ params_at_start[IdParam] = "ocid1.orig"
    /\ params = params_at_start

\* C3: in the create-operation lifecycle-state waiter the identifier parameter
\* has its original value whenever wait() ends with a failure, also when the
\* single get_resource() of the swap raised.
C3_RestoredWhenFetchRaises ==
    (waiter = "CreateOperationLifecycleStateWaiter" /\ pc = "raised")
    => params = params_at_start

\* C4 (as stated): every wait of a polling waiter (its 'wait' option given) ends
\* in exactly one of a terminal state returned, a timeout failure, an identifier
\* failure.
ReturnedTerminal ==
    /\ pc = "returned"
    /\ CASE waiter \in WorkRequestWaiters ->
                wait_response # NoResponse /\ IsWaitForState(wait_response.data.status)
         [] waiter = "AuditConfigurationLifecycleStateWaiter" ->
                /\ "retention_period_days" \in DOMAIN result
                /\ result.retention_period_days = params["retention_period_days"]
                /\ result = wait_response.data
         [] OTHER ->
                /\ "lifecycle_state" \in DOMAIN result
                /\ IsWaitForState(result.lifecycle_state)
                /\ result = wait_response.data
TimeoutFailure == pc = "raised" /\ failure = "MaximumWaitTimeExceeded"
IdentifierFailure ==
    pc = "raised" /\ failure \in {"IdentifierMissing", "ResourceIdentifierMissing"}
FetchFailure == pc = "raised" /\ failure \in {"ServiceError", "KeyError"}
EvaluationFailure == pc = "raised" /\ failure = "AttributeError"

C4_EveryWaitEndsTerminal ==
    (Ended /\ waiter \in PollingWaiters /\ "wait" \in DOMAIN params)
    => \/ ReturnedTerminal /\ ~TimeoutFailure /\ ~IdentifierFailure
       \/ ~ReturnedTerminal /\ TimeoutFailure /\ ~IdentifierFailure
       \/ ~ReturnedTerminal /\ ~TimeoutFailure /\ IdentifierFailure

\* C4 (amended): with waiting enabled, every wait of a polling waiter ends in
\* exactly one of: a resource returned after the waiter's terminal predicate held
\* on the last polled response, a timeout failure, an identifier failure, a
\* propagated fetch failure, a propagated failure of the predicate's evaluation
\* (the polled object has no status attribute).  A returned resource of the (create) lifecycle-state
\* waiter is the last polled one and its lifecycle state is case-insensitively in
\* wait_for_states; the work-request waiters return only after a polled status
\* was in wait_for_states.
C4_EnabledWaitEndsTerminal ==
    (Ended /\ waiter \in PollingWaiters /\ wait_param(params))
    => Cardinality({i \in 1..5 :
            <<ReturnedTerminal, TimeoutFailure, IdentifierFailure, FetchFailure,
              EvaluationFailure>>[i]}) = 1

C4_Witness ==
    /\ pc = "returned"
    /\ waiter = "LifecycleStateWaiter"
    /\ wait_param(params)
    /\ wait_for_states = <<ACTIVE>>
    /\ result.lifecycle_state = Active
    /\ polls >= 1

\* C5: when max_wait_seconds has elapsed without the predicate holding the wait
\* ends with the timeout failure: nothing is returned, the failure is the final
\* outcome, and no step (no fetch of any kind) follows it.
C5_TimeoutPropagates ==
    [][ /\ (pc = "sleep" /\ polls >= max_wait_seconds)
            => (pc' = "raised" /\ failure' = "MaximumWaitTimeExceeded")
        /\ failure' = "MaximumWaitTimeExceeded"
            => /\ pc' = "raised"
               /\ result' = NoResult
               /\ polls' = max_wait_seconds
               /\ ~evaluate_response(wait_response')
               /\ UNCHANGED <<polls, wait_response, log_vars>>
        /\ failure # "MaximumWaitTimeExceeded" ]_vars

C5_Witness ==
    /\ pc = "raised"
    /\ failure = "MaximumWaitTimeExceeded"
    /\ result = NoResult
    /\ polls = max_wait_seconds
    /\ polls >= 1

\* C6: create-operation work-request waiter, the work request being terminal.
\* Exactly one entry of its resource list with the entity type of the resource
\* type, with identifier X: get-by-id is called once, with X, and wait() returns
\* what it answered.  No such entry: the wait fails with
\* ResourceIdentifierMissing and get-by-id is never called.
MatchingEntries ==
    { i \in DOMAIN work_request_resources.list :
        work_request_resources.list[i].entity_type = get_entity_type(resource_type) }

C6_CreateWorkRequestIdentifier ==
    (waiter = "CreateOperationWorkRequestWaiter" /\ work_request_resources.read)
    => /\ IsWaitForState(wait_response.data.status)
       /\ \A i \in MatchingEntries :
            (MatchingEntries = {i} /\ Truthy(work_request_resources.list[i].identifier))
            => /\ get_fn_log = <<work_request_resources.list[i].identifier>>
               /\ failure # "ResourceIdentifierMissing"
               /\ pc = "returned" => result.id = work_request_resources.list[i].identifier
       /\ MatchingEntries = {}
            => /\ pc = "raised"
               /\ failure = "ResourceIdentifierMissing"
               /\ get_fn_log = <<>>
               /\ result = NoResult

C6_Witness ==
    /\ waiter = "CreateOperationWorkRequestWaiter"
    /\ work_request_resources.read
    /\ Len(work_request_resources.list) = 2
    /\ \E i \in MatchingEntries :
            /\ MatchingEntries = {i}
            /\ work_request_resources.list[i].identifier = "id-123"
    /\ pc = "returned"
    /\ result.id = "id-123"
    /\ get_fn_log = <<"id-123">>

\* C7: for the update of the audit configuration get_waiter returns the
\* NoneWaiter whatever waiter kind is asked for: no work request is fetched and
\* nothing is polled.
C7_AuditUpdateOverride ==
    ThroughCallAndWait("audit", "configuration", UPDATE_OPERATION_KEY)
    => /\ waiter \in {None, "NoneWaiter"}
       /\ pc \in {"wait", "returned"}
            => (waiter = "NoneWaiter" /\ waiter_override_class = "NoneWaiter")
       /\ NoFetchMade

C7_Witness ==
    /\ pc = "returned"
    /\ ThroughCallAndWait("audit", "configuration", UPDATE_OPERATION_KEY)
    /\ waiter_type = WORK_REQUEST_WAITER_KEY
    /\ "opc-work-request-id" \in DOMAIN operation_response.headers
    /\ wait_param(params)
    /\ waiter = "NoneWaiter"

\* C8: an update of the audit configuration with waiting enabled: call_and_wait
\* returns only once a polled resource had retention_period_days equal to the
\* requested value.
C8_AuditUpdateWaitsForRetention ==
    (/\ ThroughCallAndWait("audit", "configuration", UPDATE_OPERATION_KEY)
     /\ wait_param(params)
     /\ pc = "returned")
    => /\ get_resource_log # <<>>
       /\ wait_response # NoResponse
       /\ wait_response.data.retention_period_days = params["retention_period_days"]

\* C9: get_waiter_override answers the entry of the exact
\* (namespace, resource_type, operation) key if the registry has one, else the
\* entry of (namespace, resource_type, ANY_OPERATION_KEY) if it has one, else
\* nothing; get_waiter builds the override it is given.
C9_OverrideLookupOrder ==
    pc = "wait"
    => LET exact == <<namespace, resource_type, operation>>
           any == <<namespace, resource_type, ANY_OPERATION_KEY>>
       IN  /\ exact \in DOMAIN waiter_override_map
                => waiter_override_class = waiter_override_map[exact]
           /\ (exact \notin DOMAIN waiter_override_map /\ any \in DOMAIN waiter_override_map)
                => waiter_override_class = waiter_override_map[any]
           /\ (exact \notin DOMAIN waiter_override_map /\ any \notin DOMAIN waiter_override_map)
                => waiter_override_class = None
           /\ waiter_override_class # None => waiter = waiter_override_class

C9_Witness ==
    /\ pc = "wait"
    /\ <<namespace, resource_type, operation>> \in DOMAIN waiter_override_map
    /\ <<namespace, resource_type, ANY_OPERATION_KEY>> \in DOMAIN waiter_override_map
    /\ waiter_override_map[<<namespace, resource_type, operation>>]
         # waiter_override_map[<<namespace, resource_type, ANY_OPERATION_KEY>>]
    /\ waiter_override_class = waiter_override_map[<<namespace, resource_type, operation>>]

\* C10: with no override for the resource and operation, get_waiter picks the
\* create variant of the lifecycle-state or work-request waiter for a create
\* operation, the plain variant for any other operation, and the NoneWaiter for
\* the none kind and for an unrecognized kind.
C10_GenericDispatch ==
    (/\ pc = "wait"
     /\ <<namespace, resource_type, operation>> \notin DOMAIN waiter_override_map
     /\ <<namespace, resource_type, ANY_OPERATION_KEY>> \notin DOMAIN waiter_override_map)
    => /\ (waiter_type = LIFECYCLE_STATE_WAITER_KEY /\ operation = CREATE_OPERATION_KEY)
            => waiter = "CreateOperationLifecycleStateWaiter"
       /\ (waiter_type = LIFECYCLE_STATE_WAITER_KEY /\ operation # CREATE_OPERATION_KEY)
            => waiter = "LifecycleStateWaiter"
       /\ (waiter_type = WORK_REQUEST_WAITER_KEY /\ operation = CREATE_OPERATION_KEY)
            => waiter = "CreateOperationWorkRequestWaiter"
       /\ (waiter_type = WORK_REQUEST_WAITER_KEY /\ operation # CREATE_OPERATION_KEY)
            => waiter = "WorkRequestWaiter"
       /\ waiter_type \notin {LIFECYCLE_STATE_WAITER_KEY, WORK_REQUEST_WAITER_KEY}
            => waiter = "NoneWaiter"

C10_Witness ==
    /\ pc = "wait"
    /\ waiter_override_map # EmptyDict
    /\ <<namespace, resource_type, operation>> \notin DOMAIN waiter_override_map
    /\ <<namespace, resource_type, ANY_OPERATION_KEY>> \notin DOMAIN waiter_override_map
    /\ waiter_type = WORK_REQUEST_WAITER_KEY
    /\ operation = CREATE_OPERATION_KEY
    /\ waiter = "CreateOperationWorkRequestWaiter"

\* The prefixes of the one order in which call_and_wait makes its calls.
CallAndWaitTraces ==
    {<<>>, <<"call_with_backoff">>, <<"call_with_backoff", "get_waiter">>,
     <<"call_with_backoff", "get_waiter", "wait">>}

\* C11: call_and_wait issues the initiating call through the backoff invoker
\* exactly once, before the waiter is selected and before any fetch; it builds
\* exactly one waiter and invokes its wait() once, and returns only what that
\* wait() returned; when the initiating call fails, no waiter is built and no
\* fetch is performed.
C11_CallOnceThenOneWaiterWaitsOnce ==
    entry = "call_and_wait" =>
        /\ call_trace \in CallAndWaitTraces
        /\ (call_trace = <<>>) <=> (pc = "call")
        /\ (waiter # None) <=> (Len(call_trace) >= 2)
        /\ Len(call_trace) < 3 => NoFetchMade /\ result = NoResult
        /\ pc = "returned" =>
                call_trace = <<"call_with_backoff", "get_waiter", "wait">> /\ result # NoResult
        /\ failure = "CallError" =>
                /\ pc = "raised"
                /\ call_trace = <<"call_with_backoff">>
                /\ waiter = None
                /\ NoFetchMade
C11_Witness ==
    /\ pc = "returned"
    /\ entry = "call_and_wait"
    /\ call_trace = <<"call_with_backoff", "get_waiter", "wait">>
    /\ get_resource_log # <<>>
    /\ polls > 0

\* Two characters are the same letter, whatever their case.
SameLetter(a, b) ==
    \/ a = b
    \/ \E k \in 1..Len(UpperChars) : {a, b} \subseteq {UpperChars[k], LowerChars[k]}
EqualIgnoringCase(s, t) ==
    /\ Len(s) = Len(t)
    /\ \A i \in 1..Len(s) : SameLetter(s[i], t[i])
\* The status value the predicate of the waiter at hand looked at last.
EvaluatedStatus ==
    IF waiter \in WorkRequestWaiters
    THEN wait_response.data.status
    ELSE wait_response.data.lifecycle_state

\* C12: the terminal predicate of the lifecycle-state waiters (on
\* lifecycle_state) and of the work-request waiters (on status) is true exactly
\* when the value is present and equals, case ignored and over its whole
\* length, some element of wait_for_states; a prefix of a waited-for state is
\* not terminal.
C12_TerminalIffCaseInsensitiveExactMatch ==
    (/\ pc \in {"extract", "sleep"}
     /\ waiter \in WorkRequestWaiters \cup {"LifecycleStateWaiter",
                                            "CreateOperationLifecycleStateWaiter"})
    => ((pc = "extract") <=>
            /\ EvaluatedStatus # NoState
            /\ \E i \in DOMAIN wait_for_states :
                    EqualIgnoringCase(EvaluatedStatus, wait_for_states[i]))
C12_Witness ==
    /\ pc = "sleep"
    /\ waiter = "LifecycleStateWaiter"
    /\ wait_for_states = <<ACTIVE>>
    /\ wait_response.data.lifecycle_state = Activ
    /\ polls > 0

\* C13 (as stated): 'wait' defaults to true, so a polling waiter whose params do
\* not contain 'wait' obtains the initial status and polls; and when
\* 'wait_timeout' is not supplied the maximum wait handed to oci.wait_until is
\* MAX_WAIT_TIMEOUT_IN_SECONDS.
C13_WaitDefaultsToTrue ==
    /\ (/\ Ended
         /\ waiter \in PollingWaiters
         /\ "wait" \notin DOMAIN params)
        => ~NoFetchMade \/ failure \in {"IdentifierMissing", "KeyError"}
    /\ "wait_timeout" \notin DOMAIN params
        => max_wait_seconds = MAX_WAIT_TIMEOUT_IN_SECONDS

\* C14 (as stated): evaluating the predicate on a polled response whose status
\* field (lifecycle_state, status) is missing or empty raises no error and
\* answers "not yet terminal": the wait goes on to the next poll or the timeout.
C14_MissingStatusIsNotYetTerminal ==
    /\ failure # "AttributeError"
    /\ (/\ pc \in {"extract", "sleep"}
         /\ waiter \in WorkRequestWaiters \cup {"LifecycleStateWaiter",
                                                "CreateOperationLifecycleStateWaiter"}
         /\ EvaluatedStatus = NoState)
        => pc = "sleep"

\* C15: in the create-operation lifecycle-state waiter, when
\* get_module_resource_id_param() raises NotImplementedError the error is caught
\* and never ends the execution: the initial status comes from exactly one
\* get_resource() made with the parameters as they are, no parameter is written
\* at any point (no swap, no restore), and the wait continues with oci.wait_until.
C15_NotApplicableFallsBackToPlainFetch ==
    (waiter = "CreateOperationLifecycleStateWaiter" /\ id_param_known = "NotImplementedError")
    => /\ params = params_at_start
       /\ id_orig = None
       /\ failure # "NotImplementedError"
       /\ pc \in {"fetch_as_is", "wait_until", "sleep", "extract", "returned", "raised"}
       /\ (pc = "fetch_as_is") <=> (get_resource_log = <<>>)
       /\ pc # "fetch_as_is" => get_resource_log = <<params_at_start[IdParam]>>
       /\ pc = "raised" /\ polls = 0 => failure \in {"ServiceError", "AttributeError"}
C15_Witness ==
    /\ pc = "returned"
    /\ waiter = "CreateOperationLifecycleStateWaiter"
    /\ id_param_known = "NotImplementedError"
    /\ get_resource_log = <<params_at_start[IdParam]>>
    /\ polls > 0

\* C16: in the create-operation lifecycle-state waiter with waiting enabled, an
\* operation response whose payload has no (or an empty) id ends the wait at
\* once with the IdentifierMissing failure: no get_resource(), oci.wait_until
\* never entered, params not written, nothing returned.
C16_IdentifierMissingFailsAtOnce ==
    (/\ waiter = "CreateOperationLifecycleStateWaiter"
     /\ wait_param(params)
     /\ ~Truthy(operation_response.data.id))
    => /\ pc \in {"wait", "raised"}
       /\ pc = "raised" => failure = "IdentifierMissing"
       /\ NoFetchMade
       /\ params = params_at_start
       /\ id_param_known = "unasked"
       /\ result = NoResult
C16_Witness ==
    /\ pc = "raised"
    /\ waiter = "CreateOperationLifecycleStateWaiter"
    /\ wait_param(params)
    /\ ~Truthy(operation_response.data.id)
    /\ failure = "IdentifierMissing"

\* C17: with waiting enabled, the work-request waiter of a non-create operation
\* takes as initial status the work request fetched by the id found under
\* 'opc-work-request-id' in the operation response headers; it calls
\* get_resource() exactly once, and only after a polled work-request status was
\* in wait_for_states; wait() returns the payload of that fetch.
C17_WorkRequestThenOneResourceFetch ==
    (waiter = "WorkRequestWaiter" /\ wait_param(params) /\ pc # "wait")
    => /\ get_fn_log = <<>>
       /\ IF "opc-work-request-id" \in DOMAIN operation_response.headers
          THEN get_work_request_log = <<operation_response.headers["opc-work-request-id"]>>
          ELSE get_work_request_log = <<>> /\ pc = "raised" /\ failure = "KeyError"
       /\ wait_response # NoResponse => wait_response.kind = "work_request"
       /\ IF get_resource_log = <<>>
          THEN pc # "returned"
          ELSE /\ get_resource_log = <<params[IdParam]>>
               /\ Ended
               /\ IsWaitForState(wait_response.data.status)
       /\ pc = "returned" =>
            result \in {r.data : r \in ResourceResponses(params[IdParam])}
C17_Witness ==
    /\ pc = "returned"
    /\ waiter = "WorkRequestWaiter"
    /\ wait_param(params)
    /\ polls > 0
    /\ get_work_request_log = <<"wr-1">>
    /\ get_resource_log = <<params[IdParam]>>

\* C18 (as stated): the swap, fetch and restore of the create-operation
\* lifecycle-state waiter are atomic with respect to the fetch: when two waits
\* sharing resource_helper.module.params interleave, neither wait's
\* get_resource() sees the identifier the other wait has written for the time
\* of its own fetch, and once both waits are through the parameter has the
\* value it had before them.
C18_SwapFetchRestoreAtomic ==
    /\ \A i \in DOMAIN get_resource_log : get_resource_log[i] # concurrent_wait.identifier
    /\ operation_response # NoResponse =>
            \A i \in DOMAIN concurrent_wait.get_resource_log :
                concurrent_wait.get_resource_log[i] # operation_response.data.id
    /\ (pc = "returned" /\ concurrent_wait.pc = "done") => params = params_at_start

\* C19: the swap of the create-operation lifecycle-state waiter (and its
\* restore) is the only write to shared state: the override registry is never
\* written and keeps its content of module load; params change only in the swap
\* and restore steps of the create-operation lifecycle-state waiter, so the
\* other waiters leave params unchanged throughout wait(); get_waiter_override,
\* get_waiter and the construction of the waiter make no fetch.
C19_SwapIsTheOnlyWrite ==
    /\ waiter_override_map = WAITER_OVERRIDE_MAP
    /\ [][/\ waiter_override_map' = waiter_override_map
          /\ params' # params =>
                /\ waiter = "CreateOperationLifecycleStateWaiter"
                /\ pc \in {"swap", "restore"}
          /\ pc \in {"get_waiter", "construct"} =>
                UNCHANGED <<params, log_vars, polls, wait_response>>
          /\ waiter' \notin {None, "CreateOperationLifecycleStateWaiter"} =>
                params' = params_at_start]_vars
C19_Witness ==
    /\ pc = "fetch_swapped"
    /\ waiter = "CreateOperationLifecycleStateWaiter"
    /\ params # params_at_start
    /\ waiter_override_map = WAITER_OVERRIDE_MAP
    /\ NoFetchMade

\* The last entry, in list order, whose entity type is that of the resource.
LastMatchingEntry == CHOOSE i \in MatchingEntries : \A j \in MatchingEntries : j <= i

\* C20: the create-operation work-request waiter scans the whole resource list:
\* with several entries of the matching entity type, get-by-id is called with
\* the identifier of the last of them in list order; when that identifier is
\* empty (in particular when every matching entry has an empty identifier) the
\* wait fails with ResourceIdentifierMissing, as when no entry matches, and
\* get-by-id is not called.
C20_LastMatchingEntryWins ==
    (/\ waiter = "CreateOperationWorkRequestWaiter"
     /\ work_request_resources.read
     /\ MatchingEntries # {})
    => IF Truthy(work_request_resources.list[LastMatchingEntry].identifier)
       THEN /\ get_fn_log = <<work_request_resources.list[LastMatchingEntry].identifier>>
            /\ failure # "ResourceIdentifierMissing"
            /\ pc = "returned" =>
                    result.id = work_request_resources.list[LastMatchingEntry].identifier
       ELSE /\ pc = "raised"
            /\ failure = "ResourceIdentifierMissing"
            /\ get_fn_log = <<>>
            /\ result = NoResult
C20_Witness ==
    /\ pc = "returned"
    /\ waiter = "CreateOperationWorkRequestWaiter"
    /\ work_request_resources.read
    /\ MatchingEntries = {1, 2}
    /\ work_request_resources.list[1].identifier = "id-123"
    /\ work_request_resources.list[2].identifier = "id-456"
    /\ get_fn_log = <<"id-456">>
    /\ result.id = "id-456"
====
